---- MODULE Spec2Model ----
(***************************************************************************)
(* A model of the semvec indexing and retrieval pipeline:                  *)
(*   - chunk_parsed_code      (services/chunk_codebase.py)                 *)
(*   - FAISSRetrievalSystem   (services/retrieval_system.py)               *)
(*   - index_repository, query_codebase (main.py, services/*.py)           *)
(*   - traverse_codebase_from_path (services/codebase_traversal.py)        *)
(* Strings are sequences of character classes; vectors are integers on a   *)
(* line and the squared L2 distance is the squared difference.             *)
(***************************************************************************)
EXTENDS Integers, Sequences, FiniteSets, TLC

\* ------------------------------------------------------------------ bounds
\* longest file content (in characters) given to the chunker
MaxContentLen == 5
\* max_chunk_size and whole_file_threshold are drawn from 0..MaxSizeParam
MaxSizeParam == 3

SeqsUpTo(S, n) == UNION {[1..k -> S] : k \in 0..n}

Min2(a, b) == IF a <= b THEN a ELSE b
Max2(a, b) == IF a >= b THEN a ELSE b

\* ---------------------------------------------------------------- chunker
\* chunk_parsed_code: its arguments, the chunks list it returns, its position
VARIABLES codebase_dict, max_chunk_size, whole_file_threshold, chunks_out, ck_pc
\* store: the files of index_dir, per identifier the .index and the .npy artifact
\* rs:    one FAISSRetrievalSystem object (its attributes)
\* last:  the last operation, its arguments and what it returned or raised
VARIABLES store, rs, last
\* tr:    one call of traverse_codebase_from_path: the repository it walks, its
\*        position, its locals ignore_patterns, tasks and codebase_dict
VARIABLES tr

ck_vars == <<codebase_dict, max_chunk_size, whole_file_threshold, chunks_out, ck_pc>>
ix_vars == <<store, rs, last>>
vars == <<codebase_dict, max_chunk_size, whole_file_threshold, chunks_out, ck_pc,
          store, rs, last, tr>>

\* Character classes of a file's text: "x" a printable non-space character,
\* "s" a space, "c" a control character (\x00-\x1F, \x7F-\x9F, newline apart),
\* "n" the line separator "\n".
Chars == {"x", "s", "c", "n"}

\* the path of the one file of codebase_dict
FilePath == <<"dir", "a.py">>

\* file_path.split("/")[-1]
Basename(path) == path[Len(path)]

\* content.split("\n")
RECURSIVE SplitFrom(_, _, _)
SplitFrom(s, i, cur) ==
    IF i > Len(s) THEN <<cur>>
    ELSE IF s[i] = "n" THEN <<cur>> \o SplitFrom(s, i + 1, <<>>)
    ELSE SplitFrom(s, i + 1, Append(cur, s[i]))

SplitLines(content) == SplitFrom(content, 1, <<>>)

\* re.sub(r"[\x00-\x1F\x7F-\x9F]", "", text)
RemoveControl(text) == SelectSeq(text, LAMBDA ch : ch # "c" /\ ch # "n")

\* re.sub(r"\s+", " ", text)
RECURSIVE CollapseWs(_)
CollapseWs(text) ==
    IF Len(text) <= 1 THEN text
    ELSE IF text[1] = "s" /\ text[2] = "s" THEN CollapseWs(Tail(text))
    ELSE <<text[1]>> \o CollapseWs(Tail(text))

RECURSIVE StripLeft(_)
StripLeft(text) ==
    IF text # <<>> /\ Head(text) = "s" THEN StripLeft(Tail(text)) ELSE text

RECURSIVE StripRight(_)
StripRight(text) ==
    IF text # <<>> /\ text[Len(text)] = "s"
    THEN StripRight(SubSeq(text, 1, Len(text) - 1)) ELSE text

\* clean_text
clean_text(text) == StripRight(StripLeft(CollapseWs(RemoveControl(text))))

\* the (i, clean_text(line)) pairs of create_chunk, empty cleaned lines omitted
RECURSIVE CleanedContent(_, _)
CleanedContent(content, start_line) ==
    IF content = <<>> THEN <<>>
    ELSE (IF clean_text(Head(content)) # <<>>
          THEN <<<<start_line, clean_text(Head(content))>>>> ELSE <<>>)
         \o CleanedContent(Tail(content), start_line + 1)

\* create_chunk: the chunks list after the call
create_chunk(chunks, file_path, start_line, end_line, content, chunk_type, name) ==
    LET cleaned_content == CleanedContent(content, start_line) IN
    IF cleaned_content # <<>>
    THEN Append(chunks, [content |-> cleaned_content,
                         metadata |-> [file |-> file_path,
                                       start_line |-> start_line,
                                       end_line |-> end_line,
                                       type |-> chunk_type,
                                       name |-> name]])
    ELSE chunks

\* sum(len(line) for line in lines)
RECURSIVE TotalChars(_)
TotalChars(lines) ==
    IF lines = <<>> THEN 0 ELSE Len(Head(lines)) + TotalChars(Tail(lines))

MustFlushIgnoringLine(current_size, line_len, max, current_chunk) ==
    current_size > max /\ current_chunk # <<>>

\* the test that closes the running chunk before a line is appended
MustFlush(current_size, line_len, max, current_chunk) ==
    current_size + line_len > max /\ current_chunk # <<>>

NextStartAfterLine(i) == i + 1

\* the start line of the chunk opened when the running chunk is closed at line i
NextStart(i) == i

\* the for loop of process_item over lines[i..], and the trailing flush
RECURSIVE ChunkLoop(_, _, _, _, _, _, _, _)
ChunkLoop(lines, i, current_chunk, current_size, start_line, chunks, file_path, max) ==
    IF i > Len(lines)
    THEN IF current_chunk # <<>>
         THEN create_chunk(chunks, file_path, start_line, Len(lines), current_chunk,
                           "partial", <<Basename(file_path), start_line>>)
         ELSE chunks
    ELSE IF MustFlush(current_size, Len(lines[i]), max, current_chunk)
         THEN ChunkLoop(lines, i + 1, <<lines[i]>>, Len(lines[i]), NextStart(i),
                        create_chunk(chunks, file_path, start_line, i - 1, current_chunk,
                                     "partial", <<Basename(file_path), start_line>>),
                        file_path, max)
         ELSE ChunkLoop(lines, i + 1, Append(current_chunk, lines[i]),
                        current_size + Len(lines[i]), start_line, chunks, file_path, max)

\* process_item: the chunks of one file
process_item(content, file_path, max, threshold) ==
    LET lines == SplitLines(content) IN
    IF TotalChars(lines) <= threshold
    THEN create_chunk(<<>>, file_path, 1, Len(lines), lines, "whole_file",
                      <<Basename(file_path)>>)
    ELSE ChunkLoop(lines, 1, <<>>, 0, 1, <<>>, file_path, max)

\* -------------------------------------------------------------- traversal
\* Paths and patterns are strings, kept as sequences of tokens: "/" the path
\* separator, ".", "!", "*" and "#" the characters, any other token a name.

\* os.path.join(a, b): an absolute b discards a
Join(a, b) ==
    IF b # <<>> /\ Head(b) = "/" THEN b
    ELSE IF a = <<>> \/ a[Len(a)] = "/" THEN a \o b
    ELSE a \o <<"/">> \o b

\* normalize_path (os.sep is "/")
normalize_path(path) ==
    LET p == IF Len(path) >= 2 /\ path[1] = "." /\ path[2] = "/"
             THEN SubSeq(path, 3, Len(path)) ELSE path
    IN  IF p # <<"/">> /\ p # <<>> /\ p[Len(p)] = "/"
        THEN SubSeq(p, 1, Len(p) - 1) ELSE p

\* the names of a path or pattern between its separators
RECURSIVE Segments(_, _, _)
Segments(s, i, cur) ==
    IF i > Len(s) THEN (IF cur = <<>> THEN <<>> ELSE <<cur>>)
    ELSE IF s[i] = "/"
         THEN (IF cur = <<>> THEN <<>> ELSE <<cur>>) \o Segments(s, i + 1, <<>>)
         ELSE Segments(s, i + 1, Append(cur, s[i]))

\* gitignore patterns as gitmatch reads them: a leading "!" negates, a "/" at
\* the start or inside anchors the pattern to the root of the matcher
Negated(pattern) == pattern # <<>> /\ Head(pattern) = "!"
PatternBody(pattern) == IF Negated(pattern) THEN Tail(pattern) ELSE pattern
Anchored(pattern) ==
    \E i \in 1..(Len(PatternBody(pattern)) - 1) : PatternBody(pattern)[i] = "/"

\* one name against one pattern segment: "*" matches any name
SegmentMatches(ps, name) == ps = <<"*">> \/ ps = name

\* one pattern against a path given by its names
PatternMatches(pattern, names) ==
    LET ps == Segments(PatternBody(pattern), 1, <<>>) IN
    IF ps = <<>> \/ names = <<>> THEN FALSE
    ELSE IF Anchored(pattern)
         THEN /\ Len(ps) = Len(names)
              /\ \A i \in 1..Len(ps) : SegmentMatches(ps[i], names[i])
         ELSE SegmentMatches(ps[Len(ps)], names[Len(names)])

\* the last matching pattern decides; no match, not excluded
Excluded(patterns, names) ==
    LET M == {i \in 1..Len(patterns) : PatternMatches(patterns[i], names)} IN
    M # {} /\ ~Negated(patterns[CHOOSE i \in M : \A j \in M : j <= i])

\* bool(gitmatch.compile(patterns).match(path)): a path is matched when it or
\* one of the directories leading to it is excluded
gitmatch(patterns, path) ==
    LET names == Segments(path, 1, <<>>) IN
    \E k \in 1..Len(names) : Excluded(patterns, SubSeq(names, 1, k))

\* should_ignore; every path it is given is relative to the repository
should_ignore(path, ignore_patterns) == gitmatch(ignore_patterns, normalize_path(path))

\* DEFAULT_IGNORE_PATTERNS, of which a name-only, a wildcard-free anchored and a
\* negated entry are kept; none of the names of the repositories walked here
\* is matched by any entry of the list
DEFAULT_IGNORE_PATTERNS == <<<<".git">>, <<"/", "tmp">>, <<"!", "default.pbxuser">>>>

\* ------------------------------------------------ the repository walked
\* relative_root of the repository root and of its one subdirectory
Root == <<".">>
Sub == <<"d">>
Dirs == {Root, Sub}

\* os.path.relpath(os.path.join(root, file), repo_path)
RelPath(relative_root, name) ==
    IF relative_root = Root THEN <<name>> ELSE relative_root \o <<"/", name>>

\* a .gitignore: absent, or its lines; unreadable when open() is refused
NoGitignore == [exists |-> FALSE, readable |-> TRUE, lines |-> <<>>]
Gitignore(lines) == [exists |-> TRUE, readable |-> TRUE, lines |-> lines]
UnreadableGitignore == [exists |-> TRUE, readable |-> FALSE, lines |-> <<>>]

\* the directories os.walk lists in a directory, and its files (in the order
\* of the listing)
SubdirsOf(relative_root) == IF relative_root = Root THEN <<"d">> ELSE <<>>
FilesOf(fs, relative_root) ==
    (IF fs.gitignore[relative_root].exists THEN <<".gitignore">> ELSE <<>>)
        \o <<"a", "b">>

\* the text files of the repository besides the .gitignore files
TextFiles == {RelPath(d, n) : d \in Dirs, n \in {"a", "b"}}

\* what reading a file gives: its text, a UnicodeDecodeError, another Exception
ReadOutcomes == {"ok", "decode", "error"}

\* the text of the file at a path
ContentOf(path) == <<"text of">> \o path

\* what awaiting the read of path gives in the snapshot fs
ReadOf(fs, path) == IF path \in TextFiles THEN fs.outcome[path] ELSE "ok"

\* parse_gitignore(repo_path, base_path) for the directory dir: the exception
\* of open(), or the patterns; sources (which line of which file each pattern
\* was read from) is kept for the claims only
parse_gitignore(fs, dir, base_path) ==
    LET g == fs.gitignore[dir]
        kept == SelectSeq(g.lines, LAMBDA line : line # <<>> /\ Head(line) # "#")
    IN  IF ~g.exists THEN [raised |-> FALSE, patterns |-> <<>>, sources |-> <<>>]
        ELSE IF ~g.readable THEN [raised |-> TRUE, patterns |-> <<>>, sources |-> <<>>]
        ELSE [raised |-> FALSE,
              patterns |-> [k \in 1..Len(kept) |-> normalize_path(Join(base_path, kept[k]))],
              sources |-> [k \in 1..Len(kept) |-> [dir |-> dir, line |-> kept[k]]]]

\* one process_file(file_path, relative_path) coroutine: created, then
\* awaiting its read, then done; result says how it ended; seen (the number of
\* patterns in force when the walk reached the file) is kept for the claims
Task(relative_path, seen) ==
    [relative_path |-> relative_path, pc |-> "created", result |-> "", seen |-> seen]

\* the call traverse_codebase_from_path(repo_path) on the repository fs
Traversal(fs, pc) ==
    [fs |-> fs, pc |-> pc, ignore_patterns |-> <<>>, sources |-> <<>>,
     todo |-> <<>>, tasks |-> <<>>, codebase_dict |-> <<>>, writes |-> <<>>]

Snapshot(root_gitignore, sub_gitignore, outcome) ==
    [gitignore |-> [d \in Dirs |-> IF d = Root THEN root_gitignore ELSE sub_gitignore],
     outcome |-> outcome]

AllReadable == [p \in TextFiles |-> "ok"]

TraversalIdle == Traversal(Snapshot(NoGitignore, NoGitignore, AllReadable), "idle")

\* codebase_dict[relative_path] = content
DictSet(dict, key, value) ==
    [k \in DOMAIN dict \cup {key} |-> IF k = key THEN value ELSE dict[k]]

\* lines 293-295: the defaults, then the patterns of the root .gitignore
TraverseStart ==
    /\ tr.pc = "start"
    /\ LET g == parse_gitignore(tr.fs, Root, <<>>) IN
       tr' = IF g.raised THEN [tr EXCEPT !.pc = "raised"]
             ELSE [tr EXCEPT !.pc = "walk",
                             !.ignore_patterns =
                                 [k \in 1..Len(DEFAULT_IGNORE_PATTERNS) |->
                                     normalize_path(DEFAULT_IGNORE_PATTERNS[k])]
                                 \o g.patterns,
                             !.sources =
                                 [k \in 1..Len(DEFAULT_IGNORE_PATTERNS) |->
                                     [dir |-> <<>>, line |-> DEFAULT_IGNORE_PATTERNS[k]]]
                                 \o g.sources,
                             !.todo = <<Root>>]
    /\ UNCHANGED ck_vars
    /\ UNCHANGED ix_vars

\* one iteration of "for root, dirs, files in os.walk(repo_path)" (top-down):
\* prune dirs, read the directory's .gitignore, create one coroutine per file;
\* after the last iteration the walk is over and gather is awaited
WalkDirectory ==
    /\ tr.pc = "walk"
    /\ LET relative_root == Head(tr.todo)
           child(d) == normalize_path(Join(relative_root, <<d>>))
           dirs == SelectSeq(SubdirsOf(relative_root),
                             LAMBDA d : ~should_ignore(child(d), tr.ignore_patterns))
           files == FilesOf(tr.fs, relative_root)
           g == IF \E k \in 1..Len(files) : files[k] = ".gitignore"
                THEN parse_gitignore(tr.fs, relative_root, relative_root)
                ELSE [raised |-> FALSE, patterns |-> <<>>, sources |-> <<>>]
           ignore_patterns == tr.ignore_patterns \o g.patterns
           todo == [k \in 1..Len(dirs) |-> child(dirs[k])] \o Tail(tr.todo)
       IN  tr' = IF g.raised THEN [tr EXCEPT !.pc = "raised"]
                 ELSE [tr EXCEPT
                         !.ignore_patterns = ignore_patterns,
                         !.sources = tr.sources \o g.sources,
                         !.tasks = tr.tasks \o
                             [k \in 1..Len(files) |->
                                 Task(RelPath(relative_root, files[k]),
                                      Len(ignore_patterns))],
                         !.todo = todo,
                         !.pc = IF todo = <<>> THEN "gather" ELSE "walk"]
    /\ UNCHANGED ck_vars
    /\ UNCHANGED ix_vars

\* process_file up to its first await: coroutines are started in the order
\* gather was given them
TaskStart(i) ==
    /\ tr.pc = "gather"
    /\ tr.tasks[i].pc = "created"
    /\ \A j \in 1..(i - 1) : tr.tasks[j].pc # "created"
    /\ tr' = IF should_ignore(tr.tasks[i].relative_path, tr.ignore_patterns)
             THEN [tr EXCEPT !.tasks[i].pc = "done", !.tasks[i].result = "ignored"]
             ELSE [tr EXCEPT !.tasks[i].pc = "reading"]
    /\ UNCHANGED ck_vars
    /\ UNCHANGED ix_vars

\* process_file after the read: the entry is written, or the exception logged
TaskFinish(i) ==
    /\ tr.pc = "gather"
    /\ tr.tasks[i].pc = "reading"
    /\ LET relative_path == tr.tasks[i].relative_path
           outcome == ReadOf(tr.fs, relative_path)
       IN  tr' = IF outcome = "ok"
                 THEN [tr EXCEPT !.tasks[i].pc = "done", !.tasks[i].result = "ok",
                                 !.codebase_dict = DictSet(tr.codebase_dict, relative_path,
                                                           ContentOf(relative_path)),
                                 !.writes = Append(tr.writes, relative_path)]
                 ELSE [tr EXCEPT !.tasks[i].pc = "done", !.tasks[i].result = outcome]
    /\ UNCHANGED ck_vars
    /\ UNCHANGED ix_vars

GatherDoneAny(tasks) == \E i \in 1..Len(tasks) : tasks[i].pc = "done"

\* await asyncio.gather(*tasks) is over when every coroutine has finished
GatherDone(tasks) == \A i \in 1..Len(tasks) : tasks[i].pc = "done"

\* return codebase_dict
Return ==
    /\ tr.pc = "gather"
    /\ GatherDone(tr.tasks)
    /\ tr' = [tr EXCEPT !.pc = "returned"]
    /\ UNCHANGED ck_vars
    /\ UNCHANGED ix_vars

\* most lines of one .gitignore
MaxRules == 2
\* the lines .gitignore files are made of
Patterns == {<<"*">>, <<"!", "a">>, <<"/", "a">>, <<"b">>, <<"d">>}
Gitignores == {NoGitignore} \cup {Gitignore(l) : l \in SeqsUpTo(Patterns, MaxRules)}

NextTraverse ==
    \/ TraverseStart
    \/ WalkDirectory
    \/ \E i \in 1..Len(tr.tasks) : TaskStart(i)
    \/ \E i \in 1..Len(tr.tasks) : TaskFinish(i)
    \/ Return

\* ------------------------------------------------------ retrieval system
\* A chunk as the retrieval system reads it: the cleaned content (a token) and
\* the metadata file, start_line, end_line.
Chunk(f, s, e, t) ==
    [content |-> t, metadata |-> [file |-> f, start_line |-> s, end_line |-> e]]

FileNo(f) == IF f = "a.py" THEN 0 ELSE 1

\* f"File: {chunk['metadata']['file']}\n\n{' '.join(...chunk['content'])}"
Text(chunk) == <<FileNo(chunk.metadata.file), chunk.content>>

\* SentenceTransformer.encode: deterministic, one vector (a point on a line)
\* per text; the model itself is an external collaborator
Embed(text) == IF Len(text) = 1 THEN text[1] ELSE text[1] + text[2]

\* batch_size = 32
BatchSize == 32
\* min(100, ...)
MaxClusters == 100
\* the distance FAISS reports in a neighbor slot it could not fill (label -1)
FltMax == 1000000

\* the batch (texts[i : i + batch_size]) of the item at 0-based position p
BatchOf(p) == p \div BatchSize

\* the embeddings list of _build_index: one entry per text whose batch was
\* tokenized and whose encode did not raise, in order. src (the 0-based
\* position of the chunk it was computed from) is kept for the claims only.
RECURSIVE EncodeFrom(_, _, _, _)
EncodeFrom(chunks, p, failed, failed_batches) ==
    IF p >= Len(chunks) THEN <<>>
    ELSE (IF BatchOf(p) \notin failed_batches /\ p \notin failed
          THEN <<[vec |-> Embed(Text(chunks[p + 1])), src |-> p]>>
          ELSE <<>>)
         \o EncodeFrom(chunks, p + 1, failed, failed_batches)

NoEmbeddingsNever(embeddings) == FALSE

\* "if not embeddings: raise ValueError"
NoEmbeddings(embeddings) == embeddings = <<>>

NoIndex == [exists |-> FALSE, kind |-> "none", nlist |-> 0, entries |-> <<>>]

\* _build_index: raised, or the index built
build_index(chunks, failed, failed_batches) ==
    LET embeddings == EncodeFrom(chunks, 0, failed, failed_batches)
        n_clusters == Min2(MaxClusters, Len(embeddings) \div 2)
    IN  IF NoEmbeddings(embeddings)
        THEN [raised |-> TRUE, embedded |-> 0, index |-> NoIndex]
        ELSE [raised |-> FALSE, embedded |-> Len(embeddings),
              index |-> [exists |-> TRUE,
                         kind |-> IF Len(embeddings) < n_clusters THEN "flat" ELSE "ivf",
                         nlist |-> n_clusters,
                         entries |-> embeddings]]

\* squared L2 distance
Dist(qv, vec) == (qv - vec) * (qv - vec)

\* The sets of 0-based positions one search may scan: a flat index scans all;
\* an IVF index probes one inverted list (nprobe = 1): with no list there is
\* nothing to scan, with one list it holds every vector, with more the list is
\* whichever cluster training produced.
Scanned(index) ==
    LET all == 0..(Len(index.entries) - 1) IN
    IF index.kind = "flat" \/ index.nlist = 1 THEN {all}
    ELSE IF index.nlist = 0 THEN {{}}
    ELSE SUBSET all

\* index.search(query, k): the k neighbor slots, nearest first, ties in any
\* order, unfilled slots as (-1, FltMax)
HitsOver(index, qv, k, V) ==
    LET m == Min2(k, Cardinality(V))
        d(p) == Dist(qv, index.entries[p + 1].vec)
        nearest == {s \in [1..m -> V] :
                      /\ \A i, j \in 1..m : i < j => (s[i] # s[j] /\ d(s[i]) <= d(s[j]))
                      /\ \A v \in V : (\A i \in 1..m : s[i] # v)
                                          => \A i \in 1..m : d(s[i]) <= d(v)}
    IN  {[i \in 1..k |-> IF i <= m THEN [idx |-> s[i], dist |-> d(s[i])]
                                   ELSE [idx |-> -1, dist |-> FltMax]] : s \in nearest}

\* what index.search may do: return hits, or raise (an IVF index without any
\* list has nothing to probe, which FAISS builds reject)
SearchOutcomes(index, qv, k) ==
    {[raised |-> FALSE, hits |-> h] :
        h \in UNION {HitsOver(index, qv, k, V) : V \in Scanned(index)}}
    \cup (IF index.kind = "ivf" /\ index.nlist = 0
          THEN {[raised |-> TRUE, hits |-> <<>>]} ELSE {})

\* rationals as <<numerator, denominator>>, denominator > 0
RatLess(a, b) == a[1] * b[2] < b[1] * a[2]
RatMax(a, b) == IF RatLess(a, b) THEN b ELSE a

\* similarity = 1 / (1 + distance)
Similarity(distance) == <<1, 1 + distance>>

BelowThresholdSwapped(similarity, similarity_threshold) ==
    RatLess(similarity_threshold, similarity)

\* "if similarity < similarity_threshold: continue"
BelowThreshold(similarity, similarity_threshold) ==
    RatLess(similarity, similarity_threshold)

\* self.chunks[idx] with a numpy/Python index: negative counts from the end
InRange(chunks, idx) == -Len(chunks) <= idx /\ idx < Len(chunks)
ChunkAt(chunks, idx) == IF idx < 0 THEN chunks[Len(chunks) + idx + 1] ELSE chunks[idx + 1]

MergeEntryOverwrite(old, meta, similarity) ==
    [file_path |-> old.file_path, start_line |-> meta.start_line,
     end_line |-> meta.end_line, score |-> similarity]

\* the update of seen_files[file_path] for a file seen before
MergeEntry(old, meta, similarity) ==
    [file_path |-> old.file_path,
     start_line |-> Min2(old.start_line, meta.start_line),
     end_line |-> Max2(old.end_line, meta.end_line),
     score |-> RatMax(old.score, similarity)]

UpsertInFront(seen, meta, similarity) ==
    IF \E j \in 1..Len(seen) : seen[j].file_path = meta.file
    THEN [j \in 1..Len(seen) |->
             IF seen[j].file_path = meta.file
             THEN MergeEntry(seen[j], meta, similarity) ELSE seen[j]]
    ELSE <<[file_path |-> meta.file, start_line |-> meta.start_line,
            end_line |-> meta.end_line, score |-> similarity]>> \o seen

\* seen_files after one surviving hit (a dict: insertion order kept)
Upsert(seen, meta, similarity) ==
    IF \E j \in 1..Len(seen) : seen[j].file_path = meta.file
    THEN [j \in 1..Len(seen) |->
             IF seen[j].file_path = meta.file
             THEN MergeEntry(seen[j], meta, similarity) ELSE seen[j]]
    ELSE Append(seen, [file_path |-> meta.file, start_line |-> meta.start_line,
                       end_line |-> meta.end_line, score |-> similarity])

StopReachedAbove(n_seen, top_k) == n_seen > top_k

\* "if len(seen_files) == top_k: break"
StopReached(n_seen, top_k) == n_seen = top_k

\* the loop of retrieve over indices[0][i..]: seen_files, or IndexError raised
RECURSIVE MergeLoop(_, _, _, _, _, _)
MergeLoop(hits, i, seen, chunks, top_k, similarity_threshold) ==
    IF i > Len(hits) THEN [raised |-> FALSE, seen |-> seen]
    ELSE LET similarity == Similarity(hits[i].dist) IN
         IF BelowThreshold(similarity, similarity_threshold)
         THEN MergeLoop(hits, i + 1, seen, chunks, top_k, similarity_threshold)
         ELSE IF ~InRange(chunks, hits[i].idx) THEN [raised |-> TRUE, seen |-> <<>>]
         ELSE LET seen2 == Upsert(seen, ChunkAt(chunks, hits[i].idx).metadata, similarity)
              IN  IF StopReached(Len(seen2), top_k)
                  THEN [raised |-> FALSE, seen |-> seen2]
                  ELSE MergeLoop(hits, i + 1, seen2, chunks, top_k, similarity_threshold)

\* ----------------------------------------------------- the object, the store
None == "None"

NoChunksFile == [exists |-> FALSE, chunks |-> <<>>]

\* FAISSRetrievalSystem(): no index and no chunks attribute
NewHandle ==
    [constructed |-> TRUE, has_index |-> FALSE, index |-> NoIndex,
     has_chunks |-> FALSE, chunks |-> <<>>, current_identifier |-> None]

NoHandle == [NewHandle EXCEPT !.constructed = FALSE]

\* FAISSRetrievalSystem(chunks): raised, or the object
construct(chunks, failed, failed_batches) ==
    IF chunks = <<>> THEN [raised |-> FALSE, embedded |-> 0, h |-> NewHandle]
    ELSE LET b == build_index(chunks, failed, failed_batches) IN
         [raised |-> b.raised, embedded |-> b.embedded,
          h |-> [NewHandle EXCEPT !.has_index = TRUE, !.index = b.index,
                                  !.has_chunks = TRUE, !.chunks = chunks]]

\* save_index(identifier); io says which write fails, if any
save_index(h, st, identifier, io) ==
    IF ~h.has_index \/ io = "index_write_fails"
    THEN [raised |-> TRUE, h |-> h, store |-> st]
    ELSE IF ~h.has_chunks \/ io = "chunks_write_fails"
    THEN [raised |-> TRUE, h |-> h,
          store |-> [st EXCEPT ![identifier].index = h.index]]
    ELSE [raised |-> FALSE, h |-> [h EXCEPT !.current_identifier = identifier],
          store |-> [st EXCEPT ![identifier] =
                        [index |-> h.index,
                         npy |-> [exists |-> TRUE, chunks |-> h.chunks]]]]

ArtifactsMissingBoth(st, identifier) ==
    ~st[identifier].index.exists /\ ~st[identifier].npy.exists

\* "not os.path.exists(index_filename) or not os.path.exists(chunks_filename)"
ArtifactsMissing(st, identifier) ==
    ~st[identifier].index.exists \/ ~st[identifier].npy.exists

\* load_index(identifier): FileNotFoundError raised, or the object loaded
load_index(h, st, identifier) ==
    IF ArtifactsMissing(st, identifier) THEN [raised |-> TRUE, h |-> h]
    ELSE [raised |-> FALSE,
          h |-> [h EXCEPT !.has_index = TRUE, !.index = st[identifier].index,
                          !.has_chunks = TRUE, !.chunks = st[identifier].npy.chunks,
                          !.current_identifier = identifier]]

\* ensure_index_loaded(identifier)
ensure_index_loaded(h, st, identifier) ==
    IF h.current_identifier # identifier \/ ~h.has_index \/ ~h.has_chunks
    THEN load_index(h, st, identifier)
    ELSE [raised |-> FALSE, h |-> h]

\* the outcome of one call: kind is "ok" or the exception that left the call;
\* caught names an exception the call swallowed ("" if none)
Outcome(kind, caught, hits, results) ==
    [kind |-> kind, caught |-> caught, hits |-> hits, results |-> results]

\* retrieve(query, top_k, similarity_threshold): the outcomes and the object
\* after the call; encodes says whether encoding the query succeeds
retrieve(h, st, query, top_k, similarity_threshold, encodes) ==
    IF h.current_identifier = None
    THEN {[h |-> h, out |-> Outcome("ValueError", "", <<>>, <<>>)]}
    ELSE LET e == ensure_index_loaded(h, st, h.current_identifier) IN
         IF e.raised
         THEN {[h |-> e.h, out |-> Outcome("ValueError", "FileNotFoundError", <<>>, <<>>)]}
         ELSE IF ~encodes
         THEN {[h |-> e.h, out |-> Outcome("ok", "Exception", <<>>, <<>>)]}
         ELSE {[h |-> e.h,
                out |-> IF s.raised THEN Outcome("ok", "Exception", <<>>, <<>>)
                        ELSE LET m == MergeLoop(s.hits, 1, <<>>, e.h.chunks, top_k,
                                                similarity_threshold)
                             IN  IF m.raised
                                 THEN Outcome("ok", "Exception", s.hits, <<>>)
                                 ELSE Outcome("ok", "", s.hits, m.seen)] :
                  s \in SearchOutcomes(e.h.index, Embed(<<query>>), top_k * 2)}

\* --------------------------------------------------------------- inputs
\* most chunks of one indexed repository
MaxChunks == 2
\* top_k is drawn from 1..MaxTopK
MaxTopK == 2

\* content tokens of chunks, query texts
Toks == {0, 1}
Queries == {0, 1, 2}
\* similarity_threshold: 0, the default 0.1, 1/2, 1
Thresholds == {<<0, 1>>, <<1, 10>>, <<1, 2>>, <<1, 1>>}
\* k=5, similarity_threshold=0.1 of query_codebase
DefaultTopK == 5
DefaultThreshold == <<1, 10>>

\* what chunk_parsed_code can return for one file of two lines: nothing, one
\* whole_file chunk, or partial chunks in line order
FileChunks(f, toks) ==
    {<<>>} \cup {<<Chunk(f, 1, 2, t)>> : t \in toks}
           \cup {<<Chunk(f, 1, 1, t[1]), Chunk(f, 2, 2, t[2])>> : t \in toks \X toks}

\* the chunk lists of repositories of the files a.py and b.py
ChunkLists ==
    {l \in {a \o b : a \in FileChunks("a.py", Toks), b \in FileChunks("b.py", Toks)} :
        Len(l) <= MaxChunks}

\* the chunk lists of repositories of the one file a.py, all of one content
SmallChunkLists == {l \in FileChunks("a.py", {0}) : Len(l) <= MaxChunks}

\* repository root paths; os.path.basename gives the identifier
RepoPaths == {<<"x", "a">>, <<"y", "a">>, <<"x", "b">>}
Identifiers == {Basename(p) : p \in RepoPaths}

IoOutcomes == {"ok", "index_write_fails", "chunks_write_fails"}

EmptyStore(ids) == [i \in ids |-> [index |-> NoIndex, npy |-> NoChunksFile]]

NoOutcome == Outcome("", "", <<>>, <<>>)

\* of a build: the chunks given and the embeddings produced
Built(n_chunks, embedded) == [chunks |-> n_chunks, embedded |-> embedded]
NoBuild == Built(0, 0)

Last(op, path, id, top_k, threshold, out, build, exit) ==
    [op |-> op, path |-> path, id |-> id, top_k |-> top_k, threshold |-> threshold,
     out |-> out, build |-> build, exit |-> exit]

Idle == Last("", <<>>, "", 0, <<0, 1>>, NoOutcome, NoBuild, 0)

ChunkerIdle ==
    /\ codebase_dict = [file |-> FilePath, content |-> <<>>]
    /\ max_chunk_size = 0
    /\ whole_file_threshold = 0
    /\ chunks_out = <<>>
    /\ ck_pc = "idle"

InitChunk ==
    /\ codebase_dict \in [file : {FilePath}, content : SeqsUpTo(Chars, MaxContentLen)]
    /\ max_chunk_size \in 0..MaxSizeParam
    /\ whole_file_threshold \in 0..MaxSizeParam
    /\ chunks_out = <<>>
    /\ ck_pc = "start"
    /\ store = EmptyStore(Identifiers)
    /\ rs = NoHandle
    /\ last = Idle
    /\ tr = TraversalIdle

\* chunk_parsed_code on a codebase of one file
ChunkParsedCode ==
    /\ ck_pc = "start"
    /\ chunks_out' = process_item(codebase_dict.content, codebase_dict.file,
                                  max_chunk_size, whole_file_threshold)
    /\ ck_pc' = "done"
    /\ UNCHANGED <<codebase_dict, max_chunk_size, whole_file_threshold>>
    /\ UNCHANGED ix_vars
    /\ UNCHANGED tr

NextChunk == ChunkParsedCode

SpecChunk == InitChunk /\ [][NextChunk]_vars

\* ---------------------------------------------------------------- actions
\* rs = FAISSRetrievalSystem(chunks); an object is constructed once
Construct(chunks, failed, failed_batches) ==
    /\ ~rs.constructed
    /\ LET c == construct(chunks, failed, failed_batches) IN
       /\ rs' = IF c.raised THEN rs ELSE c.h
       /\ last' = Last("construct", <<>>, "", 0, <<0, 1>>,
                       Outcome(IF c.raised THEN "ValueError" ELSE "ok", "", <<>>, <<>>),
                       Built(Len(chunks), c.embedded), 0)
    /\ UNCHANGED store
    /\ UNCHANGED ck_vars
    /\ UNCHANGED tr

\* rs.save_index(identifier)
SaveIndex(identifier, io) ==
    /\ rs.constructed
    /\ LET s == save_index(rs, store, identifier, io) IN
       /\ rs' = s.h
       /\ store' = s.store
       /\ last' = Last("save_index", <<>>, identifier, 0, <<0, 1>>,
                       Outcome(IF s.raised THEN "Exception" ELSE "ok", "", <<>>, <<>>),
                       NoBuild, 0)
    /\ UNCHANGED ck_vars
    /\ UNCHANGED tr

\* rs.load_index(identifier)
LoadIndex(identifier) ==
    /\ rs.constructed
    /\ LET l == load_index(rs, store, identifier) IN
       /\ rs' = l.h
       /\ last' = Last("load_index", <<>>, identifier, 0, <<0, 1>>,
                       Outcome(IF l.raised THEN "FileNotFoundError" ELSE "ok", "",
                               <<>>, <<>>), NoBuild, 0)
    /\ UNCHANGED store
    /\ UNCHANGED ck_vars
    /\ UNCHANGED tr

\* rs.ensure_index_loaded(identifier)
EnsureIndexLoaded(identifier) ==
    /\ rs.constructed
    /\ LET l == ensure_index_loaded(rs, store, identifier) IN
       /\ rs' = l.h
       /\ last' = Last("ensure_index_loaded", <<>>, identifier, 0, <<0, 1>>,
                       Outcome(IF l.raised THEN "FileNotFoundError" ELSE "ok", "",
                               <<>>, <<>>), NoBuild, 0)
    /\ UNCHANGED store
    /\ UNCHANGED ck_vars
    /\ UNCHANGED tr

\* rs.retrieve(query, top_k, similarity_threshold), also semantic_search
Retrieve(query, top_k, similarity_threshold, encodes) ==
    /\ rs.constructed
    /\ \E r \in retrieve(rs, store, query, top_k, similarity_threshold, encodes) :
          /\ rs' = r.h
          /\ last' = Last("retrieve", <<>>, rs.current_identifier, top_k,
                          similarity_threshold, r.out, NoBuild, 0)
    /\ UNCHANGED store
    /\ UNCHANGED ck_vars
    /\ UNCHANGED tr

\* index_repository(repo_path) of main.py; chunks is what traversal and
\* chunking of the repository give
IndexRepository(repo_path, chunks, failed, failed_batches, io) ==
    /\ LET c == construct(chunks, failed, failed_batches)
           s == save_index(c.h, store, Basename(repo_path), io)
       IN  IF chunks = <<>>
           THEN /\ store' = store
                /\ last' = Last("index_repository", repo_path, Basename(repo_path), 0,
                                <<0, 1>>, Outcome("ok", "", <<>>, <<>>), NoBuild, 0)
           ELSE IF c.raised
           THEN /\ store' = store
                /\ last' = Last("index_repository", repo_path, Basename(repo_path), 0,
                                <<0, 1>>, Outcome("SystemExit", "ValueError", <<>>, <<>>),
                                Built(Len(chunks), c.embedded), 1)
           ELSE /\ store' = s.store
                /\ last' = Last("index_repository", repo_path, Basename(repo_path), 0,
                                <<0, 1>>,
                                IF s.raised
                                THEN Outcome("SystemExit", "Exception", <<>>, <<>>)
                                ELSE Outcome("ok", "", <<>>, <<>>),
                                Built(Len(chunks), c.embedded), IF s.raised THEN 1 ELSE 0)
    /\ UNCHANGED rs
    /\ UNCHANGED ck_vars
    /\ UNCHANGED tr

\* index_repository(repo_path) of services/index_repository.py: the object
\* has no create_index method
IndexRepositoryService(repo_path, chunks) ==
    /\ last' = Last("services.index_repository", repo_path, Basename(repo_path), 0,
                    <<0, 1>>,
                    IF chunks = <<>> THEN Outcome("ok", "", <<>>, <<>>)
                    ELSE Outcome("SystemExit", "AttributeError", <<>>, <<>>),
                    NoBuild, IF chunks = <<>> THEN 0 ELSE 1)
    /\ UNCHANGED <<store, rs>>
    /\ UNCHANGED ck_vars
    /\ UNCHANGED tr

\* the dict query_codebase makes of a CodeLocation
Formatted(result) ==
    [file_path |-> result.file_path, start_line |-> result.start_line,
     end_line |-> result.end_line, score |-> result.score]

FormattedResults(results) == [j \in 1..Len(results) |-> Formatted(results[j])]

\* query_codebase(query, repo_path) of main.py: what it returns, and (caught)
\* the exception it or retrieve swallowed on the way
query_codebase(st, query, repo_path, encodes) ==
    LET e == ensure_index_loaded(NewHandle, st, Basename(repo_path)) IN
    IF e.raised THEN {Outcome("ok", "FileNotFoundError", <<>>, <<>>)}
    ELSE {Outcome("ok", r.out.caught, r.out.hits, FormattedResults(r.out.results)) :
             r \in retrieve(e.h, st, query, DefaultTopK, DefaultThreshold, encodes)}

QueryCodebase(query, repo_path, encodes) ==
    /\ \E o \in query_codebase(store, query, repo_path, encodes) :
          last' = Last("query_codebase", repo_path, Basename(repo_path), DefaultTopK,
                       DefaultThreshold, o, NoBuild, 0)
    /\ UNCHANGED <<store, rs>>
    /\ UNCHANGED ck_vars
    /\ UNCHANGED tr

\* query_codebase of services/query_codebase.py: the object has no
\* query_index method, the AttributeError is caught and [] returned
QueryCodebaseService(query, repo_path, top_k, similarity_threshold) ==
    /\ last' = Last("services.query_codebase", repo_path, Basename(repo_path), top_k,
                    similarity_threshold, Outcome("ok", "AttributeError", <<>>, <<>>),
                    NoBuild, 0)
    /\ UNCHANGED <<store, rs>>
    /\ UNCHANGED ck_vars
    /\ UNCHANGED tr

\* a file of index_dir is removed from outside the program
RemoveArtifact(identifier, artifact) ==
    /\ store[identifier][artifact].exists
    /\ store' = [store EXCEPT ![identifier][artifact] =
                    IF artifact = "index" THEN NoIndex ELSE NoChunksFile]
    /\ last' = Last("remove", <<>>, identifier, 0, <<0, 1>>, NoOutcome, NoBuild, 0)
    /\ UNCHANGED rs
    /\ UNCHANGED ck_vars
    /\ UNCHANGED tr

Positions(chunks) == 0..(Len(chunks) - 1)

\* which encodings fail during a build: single items of batches that were
\* tokenized, or the one batch (of at most batch_size texts) as a whole
Failures(chunks) ==
    {[items |-> f, batches |-> {}] : f \in SUBSET Positions(chunks)}
    \cup {[items |-> {}, batches |-> {0}]}

\* the caller-facing operations over the store of two identifiers
Init ==
    /\ ChunkerIdle
    /\ store = EmptyStore(Identifiers)
    /\ rs = NoHandle
    /\ last = Idle
    /\ tr = TraversalIdle

Next ==
    \/ \E repo_path \in RepoPaths, chunks \in SmallChunkLists, io \in IoOutcomes :
          \E f \in Failures(chunks) :
             IndexRepository(repo_path, chunks, f.items, f.batches, io)
    \/ \E repo_path \in RepoPaths, chunks \in SmallChunkLists :
          IndexRepositoryService(repo_path, chunks)
    \/ \E query \in Queries, repo_path \in RepoPaths, encodes \in BOOLEAN :
          QueryCodebase(query, repo_path, encodes)
    \/ \E query \in Queries, repo_path \in RepoPaths :
          QueryCodebaseService(query, repo_path, DefaultTopK, DefaultThreshold)
    \/ \E identifier \in Identifiers, artifact \in {"index", "npy"} :
          RemoveArtifact(identifier, artifact)

Spec == Init /\ [][Next]_vars

\* one object beside a store that runs of index_repository fill and from
\* which files can disappear
InitHandle ==
    /\ ChunkerIdle
    /\ store = EmptyStore(Identifiers)
    /\ rs = NoHandle
    /\ last = Idle
    /\ tr = TraversalIdle

NextHandle ==
    \/ \E chunks \in SmallChunkLists : \E f \in Failures(chunks) :
          Construct(chunks, f.items, f.batches)
    \/ \E identifier \in Identifiers, io \in IoOutcomes : SaveIndex(identifier, io)
    \/ \E identifier \in Identifiers : LoadIndex(identifier)
    \/ \E identifier \in Identifiers : EnsureIndexLoaded(identifier)
    \/ \E repo_path \in {<<"x", "a">>, <<"x", "b">>}, chunks \in SmallChunkLists :
          IndexRepository(repo_path, chunks, {}, {}, "ok")
    \/ \E identifier \in Identifiers, artifact \in {"index", "npy"} :
          RemoveArtifact(identifier, artifact)

SpecHandle == InitHandle /\ [][NextHandle]_vars

\* one object over one identifier: built, saved, loaded and queried with any
\* query, top_k and similarity_threshold
InitRetrieve ==
    /\ ChunkerIdle
    /\ store = EmptyStore(Identifiers)
    /\ rs = NoHandle
    /\ last = Idle
    /\ tr = TraversalIdle

NextRetrieve ==
    \/ \E chunks \in ChunkLists : \E f \in Failures(chunks) :
          Construct(chunks, f.items, f.batches)
    \/ SaveIndex("a", "ok")
    \/ LoadIndex("a")
    \/ EnsureIndexLoaded("a")
    \/ \E query \in Queries, top_k \in 1..MaxTopK, similarity_threshold \in Thresholds,
          encodes \in BOOLEAN :
          Retrieve(query, top_k, similarity_threshold, encodes)

SpecRetrieve == InitRetrieve /\ [][NextRetrieve]_vars

\* one object over a repository large enough for two clusters: two files of
\* two chunks each, every encoding succeeding
ClusteredChunkLists ==
    {a \o b : a \in {l \in FileChunks("a.py", {0}) : Len(l) > 1},
              b \in {l \in FileChunks("b.py", Toks) : Len(l) > 1}}

InitClustered ==
    /\ ChunkerIdle
    /\ store = EmptyStore(Identifiers)
    /\ rs = NoHandle
    /\ last = Idle
    /\ tr = TraversalIdle

NextClustered ==
    \/ \E chunks \in ClusteredChunkLists : Construct(chunks, {}, {})
    \/ SaveIndex("a", "ok")
    \/ \E query \in Queries, top_k \in 1..MaxTopK,
          similarity_threshold \in {<<0, 1>>, DefaultThreshold} :
          Retrieve(query, top_k, similarity_threshold, TRUE)

SpecClustered == InitClustered /\ [][NextClustered]_vars

\* traversals of repositories whose .gitignore files hold any lines and whose
\* files are all readable text
InitIgnore ==
    /\ ChunkerIdle
    /\ store = EmptyStore(Identifiers)
    /\ rs = NoHandle
    /\ last = Idle
    /\ \E r \in Gitignores, s \in Gitignores :
          tr = Traversal(Snapshot(r, s, AllReadable), "start")

SpecIgnore == InitIgnore /\ [][NextTraverse]_vars

\* traversals of repositories whose files may fail to read, completing in any
\* order
ReadGitignores ==
    {NoGitignore, UnreadableGitignore, Gitignore(<<<<"b">>>>),
     Gitignore(<<<<"*">>, <<"!", "a">>>>)}

InitTraverse ==
    /\ ChunkerIdle
    /\ store = EmptyStore(Identifiers)
    /\ rs = NoHandle
    /\ last = Idle
    /\ \E r \in ReadGitignores, s \in ReadGitignores, outcome \in [TextFiles -> ReadOutcomes] :
          tr = Traversal(Snapshot(r, s, outcome), "start")

SpecTraverse == InitTraverse /\ [][NextTraverse]_vars

\* ------------------------------------------------- chunker: claims C2, C3
Lines == SplitLines(codebase_dict.content)

Range(c) == c.metadata.start_line .. c.metadata.end_line

Covered == UNION {Range(chunks_out[k]) : k \in 1..Len(chunks_out)}

PairwiseDisjoint ==
    \A j, k \in 1..Len(chunks_out) :
        j # k => Range(chunks_out[j]) \cap Range(chunks_out[k]) = {}

HasNonEmptyLine == \E i \in 1..Len(Lines) : clean_text(Lines[i]) # <<>>

\* C2 as stated: with at least one line non-empty after cleaning, the chunks'
\* line ranges are pairwise disjoint and their union is exactly 1..N.
C2_Coverage ==
    (ck_pc = "done" /\ HasNonEmptyLine)
        => (PairwiseDisjoint /\ Covered = 1..Len(Lines))

\* C2 amended: the ranges are pairwise disjoint, lie within 1..N and cover
\* every line that is non-empty after cleaning; a whole_file chunk covers 1..N.
C2_CoverageOfNonEmpty ==
    (ck_pc = "done" /\ HasNonEmptyLine)
        => /\ PairwiseDisjoint
           /\ Covered \subseteq 1..Len(Lines)
           /\ \A i \in 1..Len(Lines) : clean_text(Lines[i]) # <<>> => i \in Covered
           /\ \A k \in 1..Len(chunks_out) :
                 chunks_out[k].metadata.type = "whole_file" => Covered = 1..Len(Lines)

\* a file split into several partial chunks, one run of blank lines dropped
C2_Witness ==
    /\ ck_pc = "done"
    /\ HasNonEmptyLine
    /\ Len(chunks_out) >= 2
    /\ Covered # 1..Len(Lines)

SumLen(a, b) == TotalChars(SubSeq(Lines, a, b))

\* C3: a partial chunk's lines sum to at most max_chunk_size raw characters,
\* unless the chunk is exactly one line that alone exceeds max_chunk_size.
C3_SizeBound ==
    ck_pc = "done" =>
        \A k \in 1..Len(chunks_out) :
            LET m == chunks_out[k].metadata IN
            m.type = "partial" =>
                \/ SumLen(m.start_line, m.end_line) <= max_chunk_size
                \/ /\ m.start_line = m.end_line
                   /\ Len(Lines[m.start_line]) > max_chunk_size

\* a partial chunk of two lines within the limit beside an oversized single line
C3_Witness ==
    /\ ck_pc = "done"
    /\ \E k \in 1..Len(chunks_out) :
          LET m == chunks_out[k].metadata IN
          m.type = "partial" /\ m.end_line > m.start_line
              /\ SumLen(m.start_line, m.end_line) = max_chunk_size
    /\ \E k \in 1..Len(chunks_out) :
          LET m == chunks_out[k].metadata IN
          m.type = "partial" /\ m.start_line = m.end_line
              /\ Len(Lines[m.start_line]) > max_chunk_size

\* ------------------------------------------- retrieve: claims C1, C4, C5
\* the last call was retrieve, it searched and merged without an exception
Retrieved == last.op = "retrieve" /\ last.out.kind = "ok" /\ last.out.caught = ""

Hits == last.out.hits
Results == last.out.results

\* the hit in slot i passed the threshold test
Surviving(i) == ~RatLess(Similarity(Hits[i].dist), last.threshold)

\* the metadata retrieve reads for the hit in slot i
HitMeta(i) == ChunkAt(rs.chunks, Hits[i].idx).metadata

SurvivingOf(f, upto) ==
    {i \in 1..upto : Surviving(i) /\ InRange(rs.chunks, Hits[i].idx)
                                  /\ HitMeta(i).file = f}

FilesUpTo(i) == {HitMeta(j).file : j \in {j \in 1..i : Surviving(j)}}

\* the slot at which the number of distinct files reaches top_k (the last slot
\* if it never does): retrieve visits no slot after it
StopIndex ==
    IF \E i \in 1..Len(Hits) : Cardinality(FilesUpTo(i)) = last.top_k
    THEN CHOOSE i \in 1..Len(Hits) :
            /\ Cardinality(FilesUpTo(i)) = last.top_k
            /\ \A j \in 1..(i - 1) : Cardinality(FilesUpTo(j)) # last.top_k
    ELSE Len(Hits)

SetMin(S) == CHOOSE x \in S : \A y \in S : x <= y
SetMax(S) == CHOOSE x \in S : \A y \in S : x >= y
ScoreMax(S) == CHOOSE x \in S : \A y \in S : ~RatLess(x, y)

MergedOver(r, S) ==
    /\ S # {}
    /\ r.start_line = SetMin({HitMeta(i).start_line : i \in S})
    /\ r.end_line = SetMax({HitMeta(i).end_line : i \in S})
    /\ r.score = ScoreMax({Similarity(Hits[i].dist) : i \in S})

\* C1 as stated: each result's start_line, end_line and score are the minimum,
\* maximum and maximum over ALL hits of its file among the top_k*2 neighbors
\* that pass the threshold, those after the cap was reached included.
C1_MergeOverAllHits ==
    Retrieved =>
        \A k \in 1..Len(Results) :
            MergedOver(Results[k], SurvivingOf(Results[k].file_path, Len(Hits)))

\* C1 amended: the minimum, maximum and maximum are over the hits of the file
\* that pass the threshold and were visited, i.e. up to and including the slot
\* at which the number of distinct files reached top_k.
C1_MergeOverVisitedHits ==
    Retrieved =>
        \A k \in 1..Len(Results) :
            MergedOver(Results[k], SurvivingOf(Results[k].file_path, StopIndex))

\* two chunks of one file, both visited: the result spans both
C1_Witness ==
    /\ Retrieved
    /\ \E k \in 1..Len(Results) :
          /\ Cardinality(SurvivingOf(Results[k].file_path, StopIndex)) >= 2
          /\ Results[k].start_line = 1
          /\ Results[k].end_line = 2
          /\ \E i \in SurvivingOf(Results[k].file_path, StopIndex) :
                HitMeta(i).start_line = 2

\* C4: on an object with an index loaded, retrieve raises nothing, returns no
\* result whose score is below similarity_threshold, and returns the empty
\* sequence when no neighbor is at or above the threshold.
C4_Threshold ==
    (last.op = "retrieve" /\ rs.current_identifier # None) =>
        /\ last.out.kind = "ok"
        /\ \A k \in 1..Len(Results) : ~RatLess(Results[k].score, last.threshold)
        /\ (\A i \in 1..Len(Hits) : ~Surviving(i)) => Results = <<>>

\* a query that lost a neighbor to the threshold and kept another
C4_Witness ==
    /\ Retrieved
    /\ Results # <<>>
    /\ \E i \in 1..Len(Hits) : Hits[i].idx >= 0 /\ ~Surviving(i)

\* C5: for top_k >= 1, retrieve asks for top_k*2 neighbors and returns at most
\* top_k results, no two of the same file.
C5_CapAndUnique ==
    (Retrieved /\ last.top_k >= 1) =>
        /\ Len(Hits) = last.top_k * 2
        /\ Len(Results) <= last.top_k
        /\ \A j, k \in 1..Len(Results) :
              j # k => Results[j].file_path # Results[k].file_path

\* more files pass the threshold than top_k admits
C5_Witness ==
    /\ Retrieved
    /\ Len(Results) = last.top_k
    /\ Cardinality(FilesUpTo(Len(Hits))) > last.top_k

\* --------------------------------------- persistence: claims C6, C7, C8
\* what a caller of retrieve sees: the exception raised or the results
Seen(out) == [kind |-> out.kind, results |-> out.results]

RetrieveSeen(h, st, query, top_k, similarity_threshold) ==
    {Seen(r.out) : r \in retrieve(h, st, query, top_k, similarity_threshold, TRUE)}

\* C6: a freshly built, unsaved object answers a query as the object loaded
\* after saving that build does (same paths, line ranges and scores).
C6_RoundTrip ==
    (rs.constructed /\ rs.has_index /\ rs.current_identifier = None) =>
        LET saved == save_index(rs, store, "a", "ok")
            loaded == load_index(NewHandle, saved.store, "a").h
        IN  \A query \in Queries, top_k \in 1..MaxTopK, threshold \in Thresholds :
               RetrieveSeen(rs, store, query, top_k, threshold)
                   = RetrieveSeen(loaded, saved.store, query, top_k, threshold)

\* the vector at each position was computed from the chunk at that position
Aligned(index) ==
    \A p \in 0..(Len(index.entries) - 1) : index.entries[p + 1].src = p

\* C7: in every built or persisted index the vector at position i comes from
\* the chunk whose metadata is at position i, also after encoding failures.
C7_OrdinalJoin ==
    /\ rs.has_index => Aligned(rs.index)
    /\ \A i \in Identifiers : store[i].index.exists => Aligned(store[i].index)

\* C8: an index_repository run in which every encoding fails ends in failure
\* and leaves every artifact of every identifier as it was.
C8_ZeroEmbeddings ==
    [][(last'.op = "index_repository" /\ last'.build.chunks > 0
            /\ last'.build.embedded = 0)
          => (store' = store /\ last'.exit = 1 /\ last'.out.kind = "SystemExit")]_vars

\* such a run for an identifier that has an index persisted
C8_Witness ==
    /\ last.op = "index_repository"
    /\ last.build.chunks > 0
    /\ last.build.embedded = 0
    /\ last.exit = 1
    /\ store[last.id].index.exists
    /\ store[last.id].npy.exists

\* ------------------------------------------- not found: claims C9, C10
\* C9: what query_codebase gives for an identifier without a persisted index
\* differs from what it gives when querying fails and when nothing matches.
C9_Distinguishable ==
    (last.op = "query_codebase" /\ last.out.caught = "FileNotFoundError") =>
        \A query \in Queries, repo_path \in RepoPaths, encodes \in BOOLEAN :
           \A o \in query_codebase(store, query, repo_path, encodes) :
              (o.caught # "FileNotFoundError"
                  /\ (o.caught = "Exception" \/ o.results = <<>>))
                 => Seen(o) # Seen(last.out)

\* C10: load_index raises the not-found condition when either artifact of the
\* identifier is missing and then leaves the object as it was; with both
\* present it succeeds and sets current_identifier.
C10_LoadIndex ==
    [][last'.op = "load_index" =>
          IF ~store[last'.id].index.exists \/ ~store[last'.id].npy.exists
          THEN last'.out.kind = "FileNotFoundError" /\ rs' = rs
          ELSE /\ last'.out.kind = "ok"
               /\ rs'.current_identifier = last'.id
               /\ rs'.index = store[last'.id].index
               /\ rs'.chunks = store[last'.id].npy.chunks]_vars

\* a load that failed on one missing artifact, on an object holding another
\* identifier's index
C10_Witness ==
    /\ last.op = "load_index"
    /\ last.out.kind = "FileNotFoundError"
    /\ rs.has_index
    /\ rs.current_identifier \notin {None, last.id}
    /\ store[last.id].index.exists # store[last.id].npy.exists

\* ------------------------------------------------ index structure: claim C11
\* the indexes a program state holds: the object's and the persisted ones
IndexesHeld ==
    (IF rs.has_index THEN {rs.index} ELSE {})
        \cup {store[i].index : i \in {j \in Identifiers : store[j].index.exists}}

\* C11: a build of n vectors with c = min(100, n // 2) uses the exact
\* structure when n is too small for clustering, for n = 1 (c = 0) in
\* particular, and the clustered structure only with 1 <= c <= n.
C11_StructureSelection ==
    \A ix \in IndexesHeld :
        LET n == Len(ix.entries)
            c == Min2(MaxClusters, n \div 2)
        IN  /\ (n < c \/ n = 1) => ix.kind = "flat"
            /\ ix.kind = "ivf" => (ix.nlist = c /\ 1 <= c /\ c <= n)

\* ------------------------------------------- traversal: claims C12 .. C15
\* every file of the repository walked, by its path relative to the root
AllFiles ==
    UNION {{RelPath(d, FilesOf(tr.fs, d)[k]) : k \in 1..Len(FilesOf(tr.fs, d))} :
              d \in Dirs}

TaskFailed(t) == t.result \in {"decode", "error"}

TimesWritten(path) == Cardinality({k \in 1..Len(tr.writes) : tr.writes[k] = path})

RulesSeenBy(t) == SubSeq(tr.ignore_patterns, 1, t.seen)

\* C13: whether a file is in the mapping is decided by the rules in force when
\* the walk visited it; a .gitignore found later in the walk changes nothing
\* for a file visited before (every read succeeding).
C13_RuleVisibility ==
    tr.pc = "returned" =>
        \A i \in 1..Len(tr.tasks) :
            LET t == tr.tasks[i] IN
            (t.relative_path \in DOMAIN tr.codebase_dict)
                <=> ~should_ignore(t.relative_path, RulesSeenBy(t))

\* the directory (relative_root) a path lies under
Under(dir, path) ==
    IF dir = Root THEN TRUE
    ELSE Len(path) > Len(dir) /\ SubSeq(path, 1, Len(dir)) = dir /\ path[Len(dir) + 1] = "/"

Walked(dir) ==
    \E i \in 1..Len(tr.tasks) :
        \E n \in {".gitignore", "a", "b"} : tr.tasks[i].relative_path = RelPath(dir, n)

\* a .gitignore of a blanket exclusion followed by the negated name n
BlanketThenNegation(dir, n) ==
    tr.fs.gitignore[dir] = Gitignore(<<<<"*">>, <<"!", n>>>>)

\* C14: for a .gitignore, at the root or in a nested directory, that holds a
\* blanket exclusion followed by a negated pattern, exactly the files the
\* negated pattern names are in the mapping, every other file of the
\* directory stays out.
C14_NegationReinclusion ==
    tr.pc = "returned" =>
        \A dir \in Dirs : \A n \in {"a", "b"} :
            (BlanketThenNegation(dir, n) /\ Walked(dir)) =>
                \A k \in 1..Len(FilesOf(tr.fs, dir)) :
                    LET f == FilesOf(tr.fs, dir)[k] IN
                    (RelPath(dir, f) \in DOMAIN tr.codebase_dict) <=> (f = n)

\* C15: a pattern with a leading "/" read from the .gitignore of a nested
\* directory D is rebased to D/<pattern> and matches paths under D only.
C15_AnchoredToDirectory ==
    \A i \in 1..Len(tr.ignore_patterns) :
        LET src == tr.sources[i] IN
        (src.dir \notin {<<>>, Root} /\ Head(src.line) = "/") =>
            /\ tr.ignore_patterns[i] = src.dir \o src.line
            /\ \A p \in AllFiles :
                  PatternMatches(tr.ignore_patterns[i], Segments(p, 1, <<>>))
                      => Under(src.dir, p)

\* ------------------------------------------ result order: claims C16, C17
\* the neighbor slots come in non-decreasing distance
NearestFirst == \A i, j \in 1..Len(Hits) : i < j => Hits[i].dist <= Hits[j].dist

\* the first visited slot of file f that passed the threshold
FirstHit(f) == SetMin(SurvivingOf(f, StopIndex))

\* C16: with neighbors returned nearest first, retrieve's results are in
\* non-increasing score order, their files in the order of their first
\* surviving hit, each with the similarity of that hit as its score.
C16_BestFirst ==
    (Retrieved /\ NearestFirst) =>
        /\ \A k \in 1..Len(Results) :
              /\ SurvivingOf(Results[k].file_path, StopIndex) # {}
              /\ Results[k].score = Similarity(Hits[FirstHit(Results[k].file_path)].dist)
        /\ \A j, k \in 1..Len(Results) :
              j < k => /\ ~RatLess(Results[j].score, Results[k].score)
                       /\ FirstHit(Results[j].file_path) < FirstHit(Results[k].file_path)

\* two files found at different distances
C16_Witness ==
    /\ Retrieved
    /\ NearestFirst
    /\ Len(Results) = 2
    /\ RatLess(Results[2].score, Results[1].score)
    /\ Hits[FirstHit(Results[2].file_path)].idx >= 0

\* the visited slots of file f that passed the threshold and hold a stored
\* vector
StoredHitsOf(f) == {i \in SurvivingOf(f, StopIndex) : Hits[i].idx >= 0}

\* C17: every result comes from positions the search returned as stored
\* vectors only: an unfilled slot (position -1, largest distance) gives no
\* result its file, line range or score, whatever the threshold.
C17_NoPhantomNeighbors ==
    Retrieved =>
        \A k \in 1..Len(Results) : MergedOver(Results[k], StoredHitsOf(Results[k].file_path))

\* ---------------------------------------------- index isolation: claim C18
\* the artifacts persisted for the repository root repo_path
ArtifactsOf(st, repo_path) == st[Basename(repo_path)]

\* C18: indexing a repository root never creates, overwrites or changes the
\* artifacts persisted for a different repository root.
C18_IndexIsolation ==
    [][last'.op = "index_repository" =>
          \A other \in RepoPaths \ {last'.path} :
              ArtifactsOf(store', other) = ArtifactsOf(store, other)]_vars
====
